---- MODULE Spec2Model ----
(***************************************************************************)
(* A model of lib/logitech_receiver/hidpp20.py: the Feature Directory      *)
(* (FeaturesArray), the Feature Dispatcher (feature_request), the Control  *)
(* Directory (KeysArray) and the v4 control entry (ReprogrammableKeyV4).   *)
(*                                                                         *)
(* Every method is an operator from a context record (the fields of the    *)
(* objects plus the requests issued so far) to records [c, ret]: the       *)
(* context after the call and what the call returned or raised; a method   *)
(* yields the set of such records, one per way the transport can answer    *)
(* the requests it issues.                                                 *)
(***************************************************************************)
EXTENDS Integers, Sequences, FiniteSets, TLC

\* ------------------------------------------------------------ constants

ROOT == 0
FEATURE_SET == 1
DEVICE_NAME == 5
REPROG_CONTROLS == 6912
REPROG_CONTROLS_V4 == 6916

\* feature IDs the callers ask about
FeatureIDs == {ROOT, FEATURE_SET, DEVICE_NAME, REPROG_CONTROLS, REPROG_CONTROLS_V4}
\* feature IDs a peripheral may declare besides ROOT
DeviceIDs == {FEATURE_SET, DEVICE_NAME, REPROG_CONTROLS_V4}

\* special_keys.MAPPING_FLAG: the reporting flags of a control, by bit
DIVERTED == 1
PERSISTENTLY_DIVERTED == 4
RAW_XY_DIVERTED == 16
FORCE_RAW_XY_DIVERTED == 64
ANALYTICS_KEY_EVENTS_REPORTING == 256
MAPPING_FLAG == {DIVERTED, PERSISTENTLY_DIVERTED, RAW_XY_DIVERTED,
                 FORCE_RAW_XY_DIVERTED, ANALYTICS_KEY_EVENTS_REPORTING}

\* special_keys.KEY_FLAG: the capabilities of a control, by bit
DIVERTABLE == 32
PERSISTENTLY_DIVERTABLE == 64
RAW_XY == 256
FORCE_RAW_XY == 512
ANALYTICS_KEY_EVENTS == 1024

\* a control ID no control of the modelled peripherals has
UnknownCid == 82

\* ------------------------------------------------------------ bounds

\* most features (besides ROOT) a device declares
MaxFeatures == 2

\* most slots a KeysArray is constructed with
MaxCount == 3

\* most flags in the dictionary a caller passes to _setCidReporting
MaxFlags == 2

\* ------------------------------------------------------------ values

\* Python's None in a slot of `features`
None == -1

\* what a call returned or raised: tag says which, val/data carry the value
Ret(tag, val, data) == [tag |-> tag, val |-> val, data |-> data]
RNone == Ret("None", 0, <<>>)
RTrue == Ret("True", 0, <<>>)
RFalse == Ret("False", 0, <<>>)
RInt(v) == Ret("int", v, <<>>)
RBytes(b) == Ret("bytes", 0, b)
RErr(e) == Ret(e, 0, <<>>)

Errors == {"IndexError", "ValueError", "TypeError", "KeyError", "FeatureNotSupported", "struct.error"}
Raised(r) == r.tag \in Errors

\* Python truthiness of a returned value
Truthy(r) ==
    \/ r.tag = "True"
    \/ r.tag = "int" /\ r.val # 0
    \/ r.tag = "bytes" /\ r.data # <<>>
    \/ r.tag = "list" /\ r.data # <<>>
    \/ r.tag = "key"

R(c, ret) == [c |-> c, ret |-> ret]

\* a Python list index (0-based) into a TLA+ sequence
At(s, i) == s[i + 1]

\* struct.pack('!H', v) and struct.unpack('!H', b)
Pack16(v) == << (v \div 256) % 256, v % 256 >>
Unpack16(b) == b[1] * 256 + b[2]

\* bit b (a power of two) is set in x
HasBit(x, b) == (x \div b) % 2 = 1

RECURSIVE BitOr(_, _)
\* x | y on non-negative integers
BitOr(x, y) ==
    IF x = 0 THEN y
    ELSE IF y = 0 THEN x
    ELSE 2 * BitOr(x \div 2, y \div 2) + (IF x % 2 = 1 \/ y % 2 = 1 THEN 1 ELSE 0)

\* a slot of KeysArray.keys that is still None
NoKey ==
    [ cid |-> None, tid |-> None, flags |-> 0, pos |-> 0, group |-> 0, gmask |-> 0,
      v |-> 0, _mapping_flags |-> None, _mapped_to |-> None ]

\* ------------------------------------------------------------ state

VARIABLES
    \* FeaturesArray
    supported, device, features, non_features,
    \* the device object: online, protocol (tenths; 0 = unknown), whether
    \* device.features still refers to the FeaturesArray
    online, protocol, dev_features,
    \* the peripheral: the feature ID it has at each feature index
    devTable,
    \* device.keys: whether the KeysArray exists, and its fields
    dev_keys, keyversion, keys, cid_to_tid, group_cids,
    \* the peripheral: its controls, and the reporting state of each
    devKeys, devRep,
    \* observation of the last operation: what it was, the FeaturesArray
    \* before it, the requests it issued, what it returned
    op, pre, wire, result

fdVars == << supported, device, features, non_features, dev_features >>
keyVars == << dev_keys, keyversion, keys, cid_to_tid, group_cids, devRep >>
envVars == << protocol, devTable, devKeys >>
obsVars == << op, pre, wire, result >>

vars == << fdVars, keyVars, envVars, obsVars, online >>

\* the context an operation starts from
Ctx ==
    [ supported |-> supported, device |-> device, features |-> features,
      non_features |-> non_features, dev_features |-> dev_features,
      dev_keys |-> dev_keys, keyversion |-> keyversion, keys |-> keys,
      cid_to_tid |-> cid_to_tid, group_cids |-> group_cids, devRep |-> devRep,
      wire |-> <<>> ]

\* the FeaturesArray as an operation found it
Snapshot ==
    [ supported |-> supported, ready |-> features # <<>>, keys |-> keys,
      features |-> features, non_features |-> non_features,
      cid_to_tid |-> cid_to_tid, group_cids |-> group_cids ]

\* ------------------------------------------------------------ peripheral

\* the feature index the root feature answers for a feature ID (0 = absent)
DevIndexOf(id) ==
    IF \E i \in 1..Len(devTable) : devTable[i] = id
    THEN (CHOOSE i \in 1..Len(devTable) : devTable[i] = id) - 1
    ELSE 0

\* the 9 bytes of "get control info" of REPROG_CONTROLS_V4 for a control
KeyInfoV4(k) ==
    Pack16(k.cid) \o Pack16(k.tid) \o
    << k.flags % 256, k.pos, k.group, k.gmask, (k.flags \div 256) % 256 >>

\* the 5 bytes of "get control info" of REPROG_CONTROLS for a control
KeyInfoV1(k) == Pack16(k.cid) \o Pack16(k.tid) \o << k.flags % 256 >>

\* the position (1-based) of the control with this control ID, 0 when none
DevKeyOf(cid) ==
    IF \E i \in 1..Len(devKeys) : devKeys[i].cid = cid
    THEN CHOOSE i \in 1..Len(devKeys) : devKeys[i].cid = cid
    ELSE 0

\* the replies a peripheral may give to getCidReporting: the 5-byte form, the
\* 6-byte form, one echoing another control ID, and a truncated one
GetReportingReplies(c, cid) ==
    LET i == DevKeyOf(cid) IN
    IF i = 0 THEN { R(c, RNone) }
    ELSE LET good == Pack16(cid) \o << c.devRep[i].flags % 256 >>
                     \o Pack16(c.devRep[i].mapped)
         IN  { R(c, RBytes(good)),
               R(c, RBytes(good \o << (c.devRep[i].flags \div 256) % 256 >>)),
               R(c, RBytes(Pack16(cid + 1) \o SubSeq(good, 3, 5))),
               R(c, RBytes(SubSeq(good, 1, 3))) }

\* the reporting flags after a setCidReporting bit field: every flag whose
\* valid bit is set takes the value of its value bit
ApplyBfield(old, bfield) ==
    LET bit(f) == IF f < 256 /\ HasBit(bfield, 2 * f)
                  THEN HasBit(bfield, f) ELSE HasBit(old, f)
        val(f) == IF bit(f) THEN f ELSE 0
    IN  val(DIVERTED) + val(PERSISTENTLY_DIVERTED) + val(RAW_XY_DIVERTED)
        + val(FORCE_RAW_XY_DIVERTED) + val(ANALYTICS_KEY_EVENTS_REPORTING)

\* the replies a peripheral may give to setCidReporting after applying it:
\* the echo, an echo that differs, and a truncated one
SetReportingReplies(c, params) ==
    LET i == DevKeyOf(Unpack16(params))
        remap == Unpack16(SubSeq(params, 4, 5))
        c1 == [c EXCEPT !.devRep[i] =
                [ flags |-> ApplyBfield(@.flags, params[3]),
                  mapped |-> IF remap # 0 THEN remap ELSE @.mapped ]]
    IN  IF i = 0 \/ Len(params) < 5 THEN { R(c, RNone) }
        ELSE { R(c1, RBytes(params)),
               R(c1, RBytes(<< params[1], (params[2] + 1) % 256 >> \o SubSeq(params, 3, 5))),
               R(c1, RBytes(SubSeq(params, 1, 3))) }

\* the peripheral's answers to a request at (feature index, function)
DeviceReply(c, addr, params) ==
    LET idx == addr \div 256
        fn == addr % 256
        feat == IF idx < Len(devTable) THEN At(devTable, idx) ELSE None
    IN  IF feat = ROOT /\ fn = 0 /\ Len(params) >= 2
            THEN { R(c, RBytes(<< DevIndexOf(Unpack16(params)) >>)) }
        ELSE IF feat = FEATURE_SET /\ fn = 0
            THEN { R(c, RBytes(<< Len(devTable) - 1 >>)) }
        ELSE IF feat = FEATURE_SET /\ fn = 16 /\ Len(params) >= 1
                /\ params[1] < Len(devTable)
            THEN { R(c, RBytes(Pack16(At(devTable, params[1])))) }
        ELSE IF feat \in {REPROG_CONTROLS, REPROG_CONTROLS_V4} /\ fn = 0
            THEN { R(c, RBytes(<< Len(devKeys) >>)) }
        ELSE IF feat = REPROG_CONTROLS /\ fn = 16 /\ Len(params) >= 1
                /\ params[1] < Len(devKeys)
            THEN { R(c, RBytes(KeyInfoV1(At(devKeys, params[1])))) }
        ELSE IF feat = REPROG_CONTROLS_V4 /\ fn = 16 /\ Len(params) >= 1
                /\ params[1] < Len(devKeys)
            THEN { R(c, RBytes(KeyInfoV4(At(devKeys, params[1])))) }
        ELSE IF feat = REPROG_CONTROLS_V4 /\ fn = 32 /\ Len(params) >= 2
            THEN GetReportingReplies(c, Unpack16(params))
        ELSE IF feat = REPROG_CONTROLS_V4 /\ fn = 48
            THEN SetReportingReplies(c, params)
        ELSE { R(c, RNone) }

\* the request and what came back, appended to the log of the operation
Logged(x, addr, params) ==
    R([x.c EXCEPT !.wire = Append(@, [addr |-> addr, params |-> params,
                                     reply |-> x.ret.tag, data |-> x.ret.data])],
      x.ret)

\* device.request(addr, *params): the transport may return nothing, and
\* returns one of the peripheral's replies only when it is online
Request(c, addr, params) ==
    { Logged(R(c, RNone), addr, params) }
    \cup
    ( IF online
      THEN { Logged(x, addr, params) : x \in DeviceReply(c, addr, params) }
      ELSE {} )

\* sequencing: every way F can continue from every outcome in S
Then(S, F(_)) == UNION { F(r) : r \in S }

\* ------------------------------------------------------------ FeaturesArray

\* a list that always has FEATURE_SET in slot 1
FreshFeaturesAtOne(count, fs_index) ==
    [i \in 1..(1 + count) |->
        IF i = 2 THEN FEATURE_SET
        ELSE IF i = 1 THEN ROOT
        ELSE None]

\* [None] * (1 + count), then slot 0 = ROOT and slot fs_index = FEATURE_SET
FreshFeatures(count, fs_index) ==
    [i \in 1..(1 + count) |->
        IF i = fs_index + 1 THEN FEATURE_SET
        ELSE IF i = 1 THEN ROOT
        ELSE None]

\* a bootstrap that gives up for good when the feature count does not come
BootstrapCountFinal(r2, fs_index) ==
    IF r2.ret.tag = "None" THEN { R([r2.c EXCEPT !.supported = FALSE], RFalse) }
    ELSE { R([r2.c EXCEPT !.features = FreshFeatures(r2.ret.data[1], fs_index)], RTrue) }

\* FeaturesArray._check, after the reply to the feature-count request
BootstrapCount(r2, fs_index) ==
    IF r2.ret.tag = "None" THEN { R(r2.c, RFalse) }
    ELSE { R([r2.c EXCEPT !.features = FreshFeatures(r2.ret.data[1], fs_index)], RTrue) }

\* FeaturesArray._check, after the reply to the root request for FEATURE_SET
BootstrapRoot(r1) ==
    IF r1.ret.tag = "None" THEN { R([r1.c EXCEPT !.supported = FALSE], RFalse) }
    ELSE IF r1.ret.data[1] # 0
        THEN Then(Request(r1.c, r1.ret.data[1] * 256, <<>>),
                  LAMBDA r2 : BootstrapCount(r2, r1.ret.data[1]))
    ELSE { R([r1.c EXCEPT !.supported = FALSE], RFalse) }

\* FeaturesArray._check, the two bootstrap requests
Bootstrap(c) == Then(Request(c, 0, Pack16(FEATURE_SET)), BootstrapRoot)

\* a _check that does not look at `supported`
CheckRetrying(c) ==
    IF c.features # <<>> THEN { R(c, RTrue) }
    ELSE IF ~online THEN { R(c, RFalse) }
    ELSE Bootstrap(c)

\* a _check that gives up for good when the device is offline
CheckOfflineFinal(c) ==
    IF ~c.supported THEN { R(c, RFalse) }
    ELSE IF c.features # <<>> THEN { R(c, RTrue) }
    ELSE IF ~online THEN { R([c EXCEPT !.supported = FALSE], RFalse) }
    ELSE IF protocol # 0 /\ protocol < 20
        THEN { R([c EXCEPT !.supported = FALSE, !.dev_features = FALSE,
                           !.device = FALSE], RFalse) }
    ELSE Bootstrap(c)

\* a _check that takes an unknown protocol version for one below 2.0
CheckUnknownIsOld(c) ==
    IF ~c.supported THEN { R(c, RFalse) }
    ELSE IF c.features # <<>> THEN { R(c, RTrue) }
    ELSE IF ~online THEN { R(c, RFalse) }
    ELSE IF protocol < 20
        THEN { R([c EXCEPT !.supported = FALSE, !.dev_features = FALSE,
                           !.device = FALSE], RFalse) }
    ELSE Bootstrap(c)

\* FeaturesArray._check (also __bool__)
Check(c) ==
    IF ~c.supported THEN { R(c, RFalse) }
    ELSE IF c.features # <<>> THEN { R(c, RTrue) }
    ELSE IF ~online THEN { R(c, RFalse) }
    ELSE IF protocol # 0 /\ protocol < 20
        THEN { R([c EXCEPT !.supported = FALSE, !.dev_features = FALSE,
                           !.device = FALSE], RFalse) }
    ELSE Bootstrap(c)

\* some slot of the list is still None
MayHave(fs) == \E i \in 1..Len(fs) : fs[i] = None

\* the first position of the list holding featureId, 0 when there is none
FirstHit(fs, featureId) ==
    IF \E i \in 1..Len(fs) : fs[i] = featureId
    THEN CHOOSE i \in 1..Len(fs) :
            fs[i] = featureId /\ \A j \in 1..(i - 1) : fs[j] # featureId
    ELSE 0

\* a __contains__ that does not remember the IDs answered with index 0
ContainsReplyForgetful(r, featureId) ==
    IF ~Truthy(r.ret) THEN { R(r.c, RNone) }
    ELSE IF r.ret.data[1] # 0
        THEN { R([r.c EXCEPT !.features[r.ret.data[1] + 1] = featureId], RTrue) }
    ELSE { R(r.c, RFalse) }

\* FeaturesArray.__contains__, after the reply to the root request
ContainsReply(r, featureId) ==
    IF ~Truthy(r.ret) THEN { R(r.c, RNone) }
    ELSE IF r.ret.data[1] # 0
        THEN { R([r.c EXCEPT !.features[r.ret.data[1] + 1] = featureId], RTrue) }
    ELSE { R([r.c EXCEPT !.non_features = @ \cup {featureId}], RFalse) }

\* FeaturesArray.__contains__, after _check
ContainsChecked(k, featureId) ==
    IF ~Truthy(k.ret) THEN { R(k.c, RNone) }
    ELSE IF featureId \in k.c.non_features THEN { R(k.c, RFalse) }
    ELSE IF FirstHit(k.c.features, featureId) # 0 THEN { R(k.c, RTrue) }
    ELSE IF ~MayHave(k.c.features) THEN { R(k.c, RNone) }
    ELSE Then(Request(k.c, 0, Pack16(featureId)),
              LAMBDA r : ContainsReply(r, featureId))

\* FeaturesArray.__contains__
Contains(c, featureId) == Then(Check(c), LAMBDA k : ContainsChecked(k, featureId))

\* FeaturesArray.index, after the reply to the root request
IndexReply(r, featureId) ==
    IF ~Truthy(r.ret) THEN { R(r.c, RErr("ValueError")) }
    ELSE { R([r.c EXCEPT !.features[r.ret.data[1] + 1] = featureId],
             RInt(r.ret.data[1])) }

\* FeaturesArray.index, after _check
IndexChecked(k, featureId) ==
    IF ~Truthy(k.ret) THEN { R(k.c, RErr("ValueError")) }
    ELSE IF FirstHit(k.c.features, featureId) # 0
        THEN { R(k.c, RInt(FirstHit(k.c.features, featureId) - 1)) }
    ELSE IF ~MayHave(k.c.features) THEN { R(k.c, RErr("ValueError")) }
    ELSE Then(Request(k.c, 0, Pack16(featureId)),
              LAMBDA r : IndexReply(r, featureId))

\* FeaturesArray.index
Index(c, featureId) == Then(Check(c), LAMBDA k : IndexChecked(k, featureId))

\* feature_request, after device.features.index(feature)
FeatureRequestAt(x, function, params) ==
    IF Raised(x.ret) THEN { x }
    ELSE Request(x.c, x.ret.val * 256 + (function % 256), params)

\* feature_request, after `feature in device.features`
FeatureRequestHas(h, feature, function, params) ==
    IF ~Truthy(h.ret) THEN { R(h.c, RNone) }
    ELSE Then(Index(h.c, feature),
              LAMBDA x : FeatureRequestAt(x, function, params))

\* feature_request, after the truth test of device.features
FeatureRequestReady(b, feature, function, params) ==
    IF ~Truthy(b.ret) THEN { R(b.c, RNone) }
    ELSE Then(Contains(b.c, feature),
              LAMBDA h : FeatureRequestHas(h, feature, function, params))

\* feature_request(device, feature, function, *params)
FeatureRequest(c, feature, function, params) ==
    IF ~online \/ ~c.dev_features THEN { R(c, RNone) }
    ELSE Then(Check(c),
              LAMBDA b : FeatureRequestReady(b, feature, function, params))

\* a __getitem__ that returns the decoded ID without keeping it
GetItemReplyUncached(f, index) ==
    IF Raised(f.ret) THEN { f }
    ELSE IF Truthy(f.ret)
        THEN { R(f.c, RInt(Unpack16(SubSeq(f.ret.data, 1, 2)))) }
    ELSE { R(f.c, RNone) }

\* FeaturesArray.__getitem__, after the reply to "get feature ID by index"
GetItemReply(f, index) ==
    IF Raised(f.ret) THEN { f }
    ELSE IF Truthy(f.ret)
        THEN { R([f.c EXCEPT !.features[index + 1] = Unpack16(SubSeq(f.ret.data, 1, 2))],
                 RInt(Unpack16(SubSeq(f.ret.data, 1, 2)))) }
    ELSE { R(f.c, RNone) }

\* FeaturesArray.__getitem__ with an int index, after _check
GetItemChecked(k, index) ==
    IF ~Truthy(k.ret) THEN { R(k.c, RNone) }
    ELSE IF index < 0 \/ index >= Len(k.c.features) THEN { R(k.c, RErr("IndexError")) }
    ELSE IF At(k.c.features, index) # None
        THEN { R(k.c, RInt(At(k.c.features, index))) }
    ELSE Then(FeatureRequest(k.c, FEATURE_SET, 16, << index >>),
              LAMBDA f : GetItemReply(f, index))

\* FeaturesArray.__getitem__ with an int index
GetItem(c, index) == Then(Check(c), LAMBDA k : GetItemChecked(k, index))

\* FeaturesArray.__len__, after _check
LenChecked(k) ==
    IF Truthy(k.ret) THEN { R(k.c, RInt(Len(k.c.features))) } ELSE { R(k.c, RInt(0)) }

\* FeaturesArray.__len__
LenOf(c) == Then(Check(c), LenChecked)

\* one more value yielded by __iter__: appended to what was yielded before
IterYield(acc, g) ==
    IF Raised(g.ret) THEN { g }
    ELSE { R(g.c, Ret("list", 0,
                      Append(acc, IF g.ret.tag = "int" THEN g.ret.val ELSE None))) }

RECURSIVE IterFrom(_, _, _)
\* the while loop of FeaturesArray.__iter__ from `index` on; g is the state
\* after the previous yield with the values yielded so far
IterFrom(g, index, last_index) ==
    IF Raised(g.ret) \/ index >= last_index THEN { g }
    ELSE Then(Then(GetItem(g.c, index), LAMBDA x : IterYield(g.ret.data, x)),
              LAMBDA y : IterFrom(y, index + 1, last_index))

\* FeaturesArray.__iter__, consumed to the end, after _check
IterateChecked(k) ==
    IF Truthy(k.ret)
    THEN IterFrom(R(k.c, Ret("list", 0, << ROOT >>)), 1, Len(k.c.features))
    ELSE { R(k.c, Ret("list", 0, <<>>)) }

\* FeaturesArray.__iter__, consumed to the end
Iterate(c) == Then(Check(c), IterateChecked)

\* ------------------------------------------------------------ KeysArray

\* KeysArray.__init__, after `FEATURE.REPROG_CONTROLS_V4 in device.features`
KeysInitV4(h, count) ==
    { R([h.c EXCEPT !.dev_keys = TRUE,
                    !.keyversion = IF Truthy(h.ret) THEN 4 ELSE 0,
                    !.keys = [i \in 1..count |-> NoKey],
                    !.cid_to_tid = <<>>,
                    !.group_cids = [g \in 1..8 |-> <<>>]], RNone) }

\* a construction that prefers version 4 to version 1
KeysInitV4First(h, count) ==
    Then(Contains(h.c, REPROG_CONTROLS_V4),
         LAMBDA h4 : { R([h4.c EXCEPT !.dev_keys = TRUE,
                              !.keyversion = IF Truthy(h4.ret) THEN 4
                                             ELSE IF Truthy(h.ret) THEN 1 ELSE 0,
                              !.keys = [i \in 1..count |-> NoKey],
                              !.cid_to_tid = <<>>,
                              !.group_cids = [g \in 1..8 |-> <<>>]], RNone) })

\* KeysArray.__init__, after `FEATURE.REPROG_CONTROLS in device.features`
KeysInitV1(h, count) ==
    IF Truthy(h.ret)
    THEN { R([h.c EXCEPT !.dev_keys = TRUE, !.keyversion = 1,
                         !.keys = [i \in 1..count |-> NoKey],
                         !.cid_to_tid = <<>>,
                         !.group_cids = [g \in 1..8 |-> <<>>]], RNone) }
    ELSE Then(Contains(h.c, REPROG_CONTROLS_V4), LAMBDA h4 : KeysInitV4(h4, count))

\* KeysArray.__init__(device, count)
KeysInit(c, count) ==
    Then(Contains(c, REPROG_CONTROLS), LAMBDA h : KeysInitV1(h, count))

\* get_keys, after the count request
GetKeysCount(n) ==
    IF Raised(n.ret) THEN { n }
    ELSE IF Truthy(n.ret) THEN KeysInit(n.c, n.ret.data[1])
    ELSE { R(n.c, RNone) }

\* get_keys, after `FEATURE.REPROG_CONTROLS_V4 in device.features`
GetKeysV4(h) ==
    IF Truthy(h.ret)
    THEN Then(FeatureRequest(h.c, REPROG_CONTROLS_V4, 0, <<>>), GetKeysCount)
    ELSE { R(h.c, RNone) }

\* get_keys, after `FEATURE.REPROG_CONTROLS in device.features`
GetKeysV1(h) ==
    IF Truthy(h.ret)
    THEN Then(FeatureRequest(h.c, REPROG_CONTROLS, 0, <<>>), GetKeysCount)
    ELSE Then(Contains(h.c, REPROG_CONTROLS_V4), GetKeysV4)

\* get_keys(device)
GetKeys(c) == Then(Contains(c, REPROG_CONTROLS), GetKeysV1)

\* KeysArray._query_key for version 1, after the reply
QueryKeyReplyV1(kd, index) ==
    IF Raised(kd.ret) THEN { kd }
    ELSE IF ~Truthy(kd.ret) THEN { R(kd.c, RNone) }
    ELSE IF Len(kd.ret.data) < 5 THEN { R(kd.c, RErr("struct.error")) }
    ELSE { R([kd.c EXCEPT
                !.keys[index + 1] =
                    [ NoKey EXCEPT !.cid = Unpack16(SubSeq(kd.ret.data, 1, 2)),
                                   !.tid = Unpack16(SubSeq(kd.ret.data, 3, 4)),
                                   !.flags = kd.ret.data[5],
                                   !.v = 1 ],
                !.cid_to_tid = (Unpack16(SubSeq(kd.ret.data, 1, 2))
                                   :> Unpack16(SubSeq(kd.ret.data, 3, 4))) @@ @],
             RNone) }

\* a _query_key that starts the bucket of the group anew
QueryKeyReplyV4Rebuilding(kd, index) ==
    IF Raised(kd.ret) THEN { kd }
    ELSE IF ~Truthy(kd.ret) THEN { R(kd.c, RNone) }
    ELSE IF Len(kd.ret.data) < 9 THEN { R(kd.c, RErr("struct.error")) }
    ELSE { R([kd.c EXCEPT
                !.keys[index + 1] =
                    [ NoKey EXCEPT !.cid = Unpack16(SubSeq(kd.ret.data, 1, 2)),
                                   !.tid = Unpack16(SubSeq(kd.ret.data, 3, 4)),
                                   !.flags = BitOr(kd.ret.data[5], kd.ret.data[9] * 256),
                                   !.pos = kd.ret.data[6],
                                   !.group = kd.ret.data[7],
                                   !.gmask = kd.ret.data[8],
                                   !.v = 4 ],
                !.cid_to_tid = (Unpack16(SubSeq(kd.ret.data, 1, 2))
                                   :> Unpack16(SubSeq(kd.ret.data, 3, 4))) @@ @,
                !.group_cids = IF kd.ret.data[7] # 0
                               THEN [@ EXCEPT ![kd.ret.data[7]] =
                                        << Unpack16(SubSeq(kd.ret.data, 1, 2)) >>]
                               ELSE @],
             RNone) }

\* a _query_key that fills an unanswered slot with an empty v4 entry
QueryKeyReplyV4Once(kd, index) ==
    IF Raised(kd.ret) THEN { kd }
    ELSE { R([kd.c EXCEPT !.keys[index + 1] = [ NoKey EXCEPT !.v = 4 ]], RNone) }

\* KeysArray._query_key for version 4, after the reply
QueryKeyReplyV4(kd, index) ==
    IF Raised(kd.ret) THEN { kd }
    ELSE IF ~Truthy(kd.ret) THEN { R(kd.c, RNone) }
    ELSE IF Len(kd.ret.data) < 9 THEN { R(kd.c, RErr("struct.error")) }
    ELSE { R([kd.c EXCEPT
                !.keys[index + 1] =
                    [ NoKey EXCEPT !.cid = Unpack16(SubSeq(kd.ret.data, 1, 2)),
                                   !.tid = Unpack16(SubSeq(kd.ret.data, 3, 4)),
                                   !.flags = BitOr(kd.ret.data[5], kd.ret.data[9] * 256),
                                   !.pos = kd.ret.data[6],
                                   !.group = kd.ret.data[7],
                                   !.gmask = kd.ret.data[8],
                                   !.v = 4 ],
                !.cid_to_tid = (Unpack16(SubSeq(kd.ret.data, 1, 2))
                                   :> Unpack16(SubSeq(kd.ret.data, 3, 4))) @@ @,
                !.group_cids = IF kd.ret.data[7] # 0
                               THEN [@ EXCEPT ![kd.ret.data[7]] =
                                        Append(@, Unpack16(SubSeq(kd.ret.data, 1, 2)))]
                               ELSE @],
             RNone) }

\* KeysArray._query_key
QueryKey(c, index) ==
    IF index < 0 \/ index >= Len(c.keys) THEN { R(c, RErr("IndexError")) }
    ELSE IF c.keyversion = 1
        THEN Then(FeatureRequest(c, REPROG_CONTROLS, 16, << index >>),
                  LAMBDA kd : QueryKeyReplyV1(kd, index))
    ELSE IF c.keyversion = 4
        THEN Then(FeatureRequest(c, REPROG_CONTROLS_V4, 16, << index >>),
                  LAMBDA kd : QueryKeyReplyV4(kd, index))
    ELSE { R(c, RNone) }

RECURSIVE EnsureFrom(_, _)
\* a loop over the slots that leaves out the last one
EnsureFromSkippingLast(q, i) ==
    IF Raised(q.ret) \/ i >= Len(q.c.keys) - 1 THEN { q }
    ELSE IF At(q.c.keys, i) = NoKey
        THEN Then(QueryKey(q.c, i), LAMBDA n : EnsureFrom(n, i + 1))
    ELSE EnsureFrom(q, i + 1)

\* the loop of KeysArray._ensure_all_keys_queried from position i on; q is
\* the state after the previous position
EnsureFrom(q, i) ==
    IF Raised(q.ret) \/ i >= Len(q.c.keys) THEN { q }
    ELSE IF At(q.c.keys, i) = NoKey
        THEN Then(QueryKey(q.c, i), LAMBDA n : EnsureFrom(n, i + 1))
    ELSE EnsureFrom(q, i + 1)

\* KeysArray._ensure_all_keys_queried
EnsureAllKeysQueried(c) == EnsureFrom(R(c, RNone), 0)

\* what KeysArray.__getitem__ returns for a slot: the entry, or None
KeyValue(c, index) ==
    IF At(c.keys, index) = NoKey THEN R(c, RNone)
    ELSE R(c, Ret("key", index, <<>>))

\* KeysArray.__getitem__, after _query_key
KeysGetItemQueried(q, index) ==
    IF Raised(q.ret) THEN { q } ELSE { KeyValue(q.c, index) }

\* KeysArray.__getitem__ with an int index
KeysGetItem(c, index) ==
    IF index < 0 \/ index >= Len(c.keys) THEN { R(c, RErr("IndexError")) }
    ELSE IF At(c.keys, index) = NoKey
        THEN Then(QueryKey(c, index), LAMBDA q : KeysGetItemQueried(q, index))
    ELSE { KeyValue(c, index) }

\* KeysArray.index, first loop: the resolved entries whose control ID is value
KeysIndexHits(c, value) ==
    { i \in 0..(Len(c.keys) - 1) :
        At(c.keys, i) # NoKey /\ At(c.keys, i).cid = value }

RECURSIVE KeysIndexFrom(_, _)
RECURSIVE KeysIndexGot(_, _)
\* KeysArray.index, second loop, after __getitem__ of the None slot i
KeysIndexGot(g, i) ==
    IF Raised(g.ret) THEN { g }
    ELSE IF g.ret.tag # "None" THEN { R(g.c, RInt(i)) }
    ELSE KeysIndexFrom(g, i + 1)

\* KeysArray.index, second loop from position i on; q is the state after
\* the previous position
KeysIndexFrom(q, i) ==
    IF i >= Len(q.c.keys) THEN { R(q.c, RNone) }
    ELSE IF At(q.c.keys, i) = NoKey
        THEN Then(KeysGetItem(q.c, i), LAMBDA g : KeysIndexGot(g, i))
    ELSE KeysIndexFrom(q, i + 1)

\* KeysArray.index(value)
KeysIndex(c, value) ==
    IF KeysIndexHits(c, value) # {}
    THEN { R(c, RInt(CHOOSE i \in KeysIndexHits(c, value) :
                        \A j \in KeysIndexHits(c, value) : i <= j)) }
    ELSE KeysIndexFrom(R(c, RNone), 0)

\* ------------------------------------------------------------ ReprogrammableKeyV4

\* the capability required to set a given reporting flag
FLAG_TO_CAPABILITY ==
    (DIVERTED :> DIVERTABLE) @@
    (PERSISTENTLY_DIVERTED :> PERSISTENTLY_DIVERTABLE) @@
    (ANALYTICS_KEY_EVENTS_REPORTING :> ANALYTICS_KEY_EVENTS) @@
    (FORCE_RAW_XY_DIVERTED :> FORCE_RAW_XY) @@
    (RAW_XY_DIVERTED :> RAW_XY)

\* ReprogrammableKeyV4.group_mask: the groups named by the bits of _gmask,
\* lowest first
GroupMask(gmask) == { g \in 1..8 : HasBit(gmask, 2 ^ (g - 1)) }

\* an inner loop that keeps every control ID of the bucket
OthersAll(bucket, k, c) == bucket

RECURSIVE Others(_, _, _)
\* the control IDs of a group bucket other than the control's own default task
Others(bucket, k, c) ==
    IF bucket = <<>> THEN <<>>
    ELSE (IF Head(bucket) = k.cid /\ c.cid_to_tid[Head(bucket)] = k.tid
          THEN <<>> ELSE << Head(bucket) >>)
         \o Others(Tail(bucket), k, c)

RECURSIVE Targets(_, _, _)
\* the inner loops of remappable_to over the groups g, g + 1, ... of the mask
Targets(c, k, g) ==
    IF g > 8 THEN <<>>
    ELSE (IF g \in GroupMask(k.gmask) THEN Others(c.group_cids[g], k, c) ELSE <<>>)
         \o Targets(c, k, g + 1)

\* ReprogrammableKeyV4.remappable_to, after _ensure_all_keys_queried
RemappableToQueried(q, index) ==
    IF Raised(q.ret) THEN { q }
    ELSE IF GroupMask(At(q.c.keys, index).gmask) = {}
        THEN { R(q.c, Ret("list", 0, <<>>)) }
    ELSE { R(q.c, Ret("list", 0, << At(q.c.keys, index).cid >>
                                  \o Targets(q.c, At(q.c.keys, index), 1))) }

\* ReprogrammableKeyV4.remappable_to of the entry at `index`
RemappableTo(c, index) ==
    Then(EnsureAllKeysQueried(c), LAMBDA q : RemappableToQueried(q, index))

\* a fallback that clears the flags and leaves the mapping target as it was
GetCidFallbackFlagsOnly(c, index) ==
    R([c EXCEPT !.keys[index + 1]._mapping_flags = 0], RNone)

\* the fallback of _getCidReporting: no flags, mapped to itself
GetCidFallback(c, index) ==
    R([c EXCEPT !.keys[index + 1]._mapping_flags = 0,
                !.keys[index + 1]._mapped_to = At(c.keys, index).cid], RNone)

\* a _getCidReporting that falls back when the reply echoes another control
GetCidReplyEchoChecked(m, index) ==
    IF Raised(m.ret) \/ ~Truthy(m.ret) \/ Len(m.ret.data) < 5
       \/ Unpack16(SubSeq(m.ret.data, 1, 2)) # At(m.c.keys, index).cid
    THEN { GetCidFallback(m.c, index) }
    ELSE { R([m.c EXCEPT
                !.keys[index + 1]._mapped_to =
                    IF Unpack16(SubSeq(m.ret.data, 4, 5)) # 0
                    THEN Unpack16(SubSeq(m.ret.data, 4, 5))
                    ELSE At(m.c.keys, index).cid,
                !.keys[index + 1]._mapping_flags =
                    BitOr(m.ret.data[3],
                          (IF Len(m.ret.data) > 5 THEN m.ret.data[6] ELSE 0) * 256)],
             RNone) }

\* _getCidReporting, after the reply to getCidReporting
GetCidReply(m, index) ==
    IF Raised(m.ret) \/ ~Truthy(m.ret) \/ Len(m.ret.data) < 5
    THEN { GetCidFallback(m.c, index) }
    ELSE { R([m.c EXCEPT
                !.keys[index + 1]._mapped_to =
                    IF Unpack16(SubSeq(m.ret.data, 4, 5)) # 0
                    THEN Unpack16(SubSeq(m.ret.data, 4, 5))
                    ELSE At(m.c.keys, index).cid,
                !.keys[index + 1]._mapping_flags =
                    BitOr(m.ret.data[3],
                          (IF Len(m.ret.data) > 5 THEN m.ret.data[6] ELSE 0) * 256)],
             RNone) }

\* ReprogrammableKeyV4._getCidReporting of the entry at `index`
GetCidReporting(c, index) ==
    Then(FeatureRequest(c, REPROG_CONTROLS_V4, 32, Pack16(At(c.keys, index).cid)),
         LAMBDA m : GetCidReply(m, index))

\* a _setCidReporting without the coupling
CouplingAbsent(flags) == flags

\* a coupling that forces diversion on with raw XY, and nothing else
CouplingOneWay(flags) ==
    IF RAW_XY_DIVERTED \in DOMAIN flags /\ flags[RAW_XY_DIVERTED]
    THEN (DIVERTED :> TRUE) @@ flags ELSE flags

\* _setCidReporting, the coupling of raw XY reporting and diversion
Coupling(flags) ==
    LET f1 == IF RAW_XY_DIVERTED \in DOMAIN flags /\ flags[RAW_XY_DIVERTED]
              THEN (DIVERTED :> TRUE) @@ flags ELSE flags
    IN  IF DIVERTED \in DOMAIN f1 /\ ~f1[DIVERTED]
        THEN (RAW_XY_DIVERTED :> FALSE) @@ f1 ELSE f1

\* a capability test that passes over the diverted flag
UnsupportedButDiverted(flags, k) ==
    \E f \in DOMAIN flags \ {DIVERTED} :
        flags[f] /\ ~HasBit(k.flags, FLAG_TO_CAPABILITY[f])

\* _setCidReporting: some flag asked on lacks its capability on the control
Unsupported(flags, k) ==
    \E f \in DOMAIN flags : flags[f] /\ ~HasBit(k.flags, FLAG_TO_CAPABILITY[f])

RECURSIVE BfieldOf(_, _)
\* _setCidReporting: the bit field of the flags in fs, value bit and valid bit
BfieldOf(flags, fs) ==
    IF fs = {} THEN 0
    ELSE LET f == CHOOSE x \in fs : TRUE IN
         BitOr(BitOr(IF flags[f] THEN f ELSE 0, 2 * f), BfieldOf(flags, fs \ {f}))

\* a packet whose bit field marks only the flags given as true
SetCidPacketSetFlagsOnly(k, flags, remap) ==
    Pack16(k.cid)
    \o << BfieldOf(flags, { f \in DOMAIN flags : flags[f] }) % 256 >>
    \o Pack16(remap)

\* _setCidReporting: the packet '!HBH' of control ID, bit field and remap
SetCidPacket(k, flags, remap) ==
    Pack16(k.cid) \o << BfieldOf(flags, DOMAIN flags) % 256 >> \o Pack16(remap)

\* a _setCidReporting that caches what the echo says instead of fetching
SetCidReplyTrusting(ret, index) ==
    IF Raised(ret.ret) THEN { ret }
    ELSE IF ret.ret.tag = "None" THEN { R(ret.c, RErr("TypeError")) }
    ELSE IF Len(ret.ret.data) < 5 THEN { R(ret.c, RErr("struct.error")) }
    ELSE { R([ret.c EXCEPT
                !.keys[index + 1]._mapping_flags = ret.ret.data[3],
                !.keys[index + 1]._mapped_to =
                    IF Unpack16(SubSeq(ret.ret.data, 4, 5)) # 0
                    THEN Unpack16(SubSeq(ret.ret.data, 4, 5))
                    ELSE At(ret.c.keys, index).cid],
             RNone) }

\* _setCidReporting, after the reply to setCidReporting
SetCidReply(ret, index) ==
    IF Raised(ret.ret) THEN { ret }
    ELSE IF ret.ret.tag = "None" THEN { R(ret.c, RErr("TypeError")) }
    ELSE IF Len(ret.ret.data) < 5 THEN { R(ret.c, RErr("struct.error")) }
    ELSE GetCidReporting(ret.c, index)

\* _setCidReporting, the request with the packed packet
SetCidPacked(c, index, pkt) ==
    Then(FeatureRequest(c, REPROG_CONTROLS_V4, 48, pkt),
         LAMBDA ret : SetCidReply(ret, index))

\* _setCidReporting, from the packing of the packet on
SetCidSend(c, index, flags, remap) ==
    Then({ SetCidPacket(At(c.keys, index), flags, remap) },
         LAMBDA pkt : SetCidPacked(c, index, pkt))

\* a _setCidReporting that sends whatever remap target it is given
SetCidRemapUntested(rt, index, flags, remap) ==
    IF Raised(rt.ret) THEN { rt }
    ELSE SetCidSend(rt.c, index, flags, remap)

\* _setCidReporting, after remappable_to was computed for the remap test
SetCidRemapTest(rt, index, flags, remap) ==
    IF Raised(rt.ret) THEN { rt }
    ELSE IF \A j \in 1..Len(rt.ret.data) : rt.ret.data[j] # remap
        THEN { R(rt.c, RErr("FeatureNotSupported")) }
    ELSE SetCidSend(rt.c, index, flags, remap)

\* _setCidReporting, after the coupling
SetCidCoupled(c, index, flags, remap) ==
    IF Unsupported(flags, At(c.keys, index))
    THEN { R(c, RErr("FeatureNotSupported")) }
    ELSE IF remap # 0
        THEN Then(RemappableTo(c, index),
                  LAMBDA rt : SetCidRemapTest(rt, index, flags, remap))
    ELSE SetCidSend(c, index, flags, remap)

\* ReprogrammableKeyV4._setCidReporting(flags, remap) of the entry at `index`
SetCidReporting(c, index, flags, remap) ==
    Then({ Coupling(flags) }, LAMBDA coupled : SetCidCoupled(c, index, coupled, remap))

\* ReprogrammableKeyV4.mapped_to, after _ensure_all_keys_queried
MappedToQueried(q, index) ==
    IF Raised(q.ret) THEN { q }
    ELSE IF At(q.c.keys, index)._mapped_to \in DOMAIN q.c.cid_to_tid
        THEN { R(q.c, RInt(At(q.c.keys, index)._mapped_to)) }
    ELSE { R(q.c, RErr("KeyError")) }

\* ReprogrammableKeyV4.mapped_to, after the fetch of an unknown state
MappedToFetched(m) == EnsureAllKeysQueried(m.c)

\* ReprogrammableKeyV4.mapped_to of the entry at `index`
MappedTo(c, index) ==
    Then(IF At(c.keys, index)._mapped_to = None
         THEN Then(GetCidReporting(c, index), MappedToFetched)
         ELSE EnsureAllKeysQueried(c),
         LAMBDA q : MappedToQueried(q, index))

\* ReprogrammableKeyV4.mapping_flags, after the fetch of an unknown state
MappingFlagsFetched(m, index) ==
    { R(m.c, RInt(At(m.c.keys, index)._mapping_flags)) }

\* ReprogrammableKeyV4.mapping_flags of the entry at `index`
MappingFlags(c, index) ==
    IF At(c.keys, index)._mapping_flags = None
    THEN Then(GetCidReporting(c, index), LAMBDA m : MappingFlagsFetched(m, index))
    ELSE { R(c, RInt(At(c.keys, index)._mapping_flags)) }

\* ------------------------------------------------------------ actions

\* no operation is under observation
Idle == [name |-> "idle", arg |-> 0]

\* the operation `name(arg)` ran from the current state and ended as r
Commit(name, arg, r) ==
    /\ supported' = r.c.supported
    /\ device' = r.c.device
    /\ features' = r.c.features
    /\ non_features' = r.c.non_features
    /\ dev_features' = r.c.dev_features
    /\ dev_keys' = r.c.dev_keys
    /\ keyversion' = r.c.keyversion
    /\ keys' = r.c.keys
    /\ cid_to_tid' = r.c.cid_to_tid
    /\ group_cids' = r.c.group_cids
    /\ devRep' = r.c.devRep
    /\ wire' = r.c.wire
    /\ result' = r.ret
    /\ op' = [name |-> name, arg |-> arg]
    /\ pre' = Snapshot
    /\ UNCHANGED << online, envVars >>

DoCheck ==
    /\ op = Idle
    /\ \E r \in Check(Ctx) : Commit("check", 0, r)

DoGetItem ==
    /\ op = Idle
    /\ \E index \in -1..(MaxFeatures + 1) :
        \E r \in GetItem(Ctx, index) : Commit("get", index, r)

DoContains ==
    /\ op = Idle
    /\ \E id \in FeatureIDs :
        \E r \in Contains(Ctx, id) : Commit("contains", id, r)

DoIndex ==
    /\ op = Idle
    /\ \E id \in FeatureIDs :
        \E r \in Index(Ctx, id) : Commit("index", id, r)

DoLen ==
    /\ op = Idle
    /\ \E r \in LenOf(Ctx) : Commit("len", 0, r)

\* list(features): the generator of __iter__ run to its end
DoIterate ==
    /\ op = Idle
    /\ \E r \in Iterate(Ctx) : Commit("iterate", 0, r)

\* the function numbers a caller passes to feature_request; one exceeds a byte
Functions == {0, 16, 272}

\* feature_request(device, feature, function, 1)
DoFeatureRequest ==
    /\ op = Idle
    /\ \E feature \in FeatureIDs, function \in Functions :
        \E r \in FeatureRequest(Ctx, feature, function, << 1 >>) :
            Commit("feature_request", [feature |-> feature, function |-> function], r)

\* the caller has taken the result: the next operation starts from the
\* objects and the peripheral alone
Return ==
    /\ op # Idle
    /\ op' = Idle
    /\ pre' = Snapshot
    /\ wire' = <<>>
    /\ result' = RNone
    /\ UNCHANGED << fdVars, keyVars, envVars, online >>

\* the device connects or disconnects
SetOnline ==
    /\ op = Idle
    /\ online' = ~online
    /\ UNCHANGED << fdVars, keyVars, envVars, obsVars >>

\* ------------------------------------------------------------ actions on controls

\* the dictionaries a caller may pass as `flags`
FlagDicts ==
    UNION { [D -> BOOLEAN] : D \in { S \in SUBSET MAPPING_FLAG : Cardinality(S) <= MaxFlags } }

\* the control IDs a caller may pass as `remap`: 0, those of the peripheral's
\* controls, and one no control has
RemapTargets == {0} \cup { devKeys[i].cid : i \in 1..Len(devKeys) } \cup {UnknownCid}

\* the indices of the resolved v4 entries of device.keys
V4Entries == { i \in 0..(Len(keys) - 1) : dev_keys /\ At(keys, i).v = 4 }

\* device.keys, first use: get_keys(device)
DoGetKeys ==
    /\ op = Idle
    /\ ~dev_keys
    /\ \E r \in GetKeys(Ctx) : Commit("get_keys", 0, r)

\* device.keys = KeysArray(device, count)
DoKeysArray ==
    /\ op = Idle
    /\ ~dev_keys
    /\ \E count \in 0..MaxCount :
        \E r \in KeysInit(Ctx, count) : Commit("KeysArray", count, r)

\* device.keys[index]
DoKeysGetItem ==
    /\ op = Idle
    /\ dev_keys
    /\ \E index \in -1..Len(keys) :
        \E r \in KeysGetItem(Ctx, index) : Commit("keys.get", index, r)

\* device.keys.index(value)
DoKeysIndex ==
    /\ op = Idle
    /\ dev_keys
    /\ \E value \in RemapTargets \ {0} :
        \E r \in KeysIndex(Ctx, value) : Commit("keys.index", value, r)

\* key._setCidReporting(flags, remap)
DoSetCidReporting ==
    /\ op = Idle
    /\ \E index \in V4Entries, flags \in FlagDicts, remap \in RemapTargets :
        /\ remap = 0 \/ flags = <<>>
        /\ \E r \in SetCidReporting(Ctx, index, flags, remap) :
            Commit("setCidReporting", [index |-> index, flags |-> flags, remap |-> remap], r)

\* key.set_diverted(value)
DoSetDiverted ==
    /\ op = Idle
    /\ \E index \in V4Entries, value \in BOOLEAN :
        \E r \in SetCidReporting(Ctx, index, (DIVERTED :> value), 0) :
            Commit("setCidReporting",
                   [index |-> index, flags |-> (DIVERTED :> value), remap |-> 0], r)

\* key.set_persistently_diverted(value)
DoSetPersistentlyDiverted ==
    /\ op = Idle
    /\ \E index \in V4Entries, value \in BOOLEAN :
        \E r \in SetCidReporting(Ctx, index, (PERSISTENTLY_DIVERTED :> value), 0) :
            Commit("setCidReporting",
                   [index |-> index, flags |-> (PERSISTENTLY_DIVERTED :> value), remap |-> 0], r)

\* key.set_rawXY_reporting(value)
DoSetRawXYReporting ==
    /\ op = Idle
    /\ \E index \in V4Entries, value \in BOOLEAN :
        \E r \in SetCidReporting(Ctx, index, (RAW_XY_DIVERTED :> value), 0) :
            Commit("setCidReporting",
                   [index |-> index, flags |-> (RAW_XY_DIVERTED :> value), remap |-> 0], r)

\* key.remap(to)
DoRemap ==
    /\ op = Idle
    /\ \E index \in V4Entries, to \in RemapTargets :
        \E r \in SetCidReporting(Ctx, index, <<>>, to) :
            Commit("setCidReporting", [index |-> index, flags |-> <<>>, remap |-> to], r)

\* key._getCidReporting()
DoGetCidReporting ==
    /\ op = Idle
    /\ \E index \in V4Entries :
        \E r \in GetCidReporting(Ctx, index) : Commit("getCidReporting", index, r)

\* key.mapped_to
DoMappedTo ==
    /\ op = Idle
    /\ \E index \in V4Entries :
        \E r \in MappedTo(Ctx, index) : Commit("mapped_to", index, r)

\* key.mapping_flags
DoMappingFlags ==
    /\ op = Idle
    /\ \E index \in V4Entries :
        \E r \in MappingFlags(Ctx, index) : Commit("mapping_flags", index, r)

\* key.remappable_to
DoRemappableTo ==
    /\ op = Idle
    /\ \E index \in V4Entries :
        \E r \in RemappableTo(Ctx, index) : Commit("remappable_to", index, r)

\* ------------------------------------------------------------ specification

\* the feature tables a peripheral can have: ROOT at index 0, then at most n
\* more features, no feature ID twice
Tables(n) ==
    { t \in UNION { [1..k -> {ROOT} \cup DeviceIDs] : k \in 1..(n + 1) } :
        /\ t[1] = ROOT
        /\ \A i, j \in DOMAIN t : t[i] = t[j] => i = j }

\* a device object just bound: FeaturesArray.__init__ has run, device.keys
\* is not built yet
InitObjects ==
    /\ supported = TRUE
    /\ device = TRUE
    /\ features = <<>>
    /\ non_features = {}
    /\ dev_features = TRUE
    /\ dev_keys = FALSE
    /\ keyversion = 0
    /\ keys = <<>>
    /\ cid_to_tid = <<>>
    /\ group_cids = [g \in 1..8 |-> <<>>]
    /\ devRep = [i \in 1..Len(devKeys) |-> [flags |-> devKeys[i].reporting, mapped |-> 0]]
    /\ op = Idle
    /\ pre = Snapshot
    /\ wire = <<>>
    /\ result = RNone

Init ==
    /\ online \in BOOLEAN
    /\ protocol \in {0, 10, 20}
    /\ devTable \in Tables(MaxFeatures)
    /\ devKeys = <<>>
    /\ InitObjects

Next ==
    \/ DoCheck
    \/ DoGetItem
    \/ DoContains
    \/ DoIndex
    \/ DoLen
    \/ DoIterate
    \/ DoFeatureRequest
    \/ SetOnline
    \/ Return

Spec == Init /\ [][Next]_vars

\* the peripherals with controls: their feature tables and their controls
KeyFeatureTables ==
    { << ROOT, FEATURE_SET, REPROG_CONTROLS_V4 >>,
      << ROOT, FEATURE_SET, REPROG_CONTROLS, REPROG_CONTROLS_V4 >>,
      << ROOT, FEATURE_SET, DEVICE_NAME >> }

\* a control that can be diverted and report raw XY, remappable within group 1
KeyA ==
    [ cid |-> 80, tid |-> 56, flags |-> DIVERTABLE + RAW_XY, pos |-> 0,
      group |-> 1, gmask |-> 1, reporting |-> 0 ]

\* a control that can report raw XY but cannot be diverted, not remappable,
\* and that the peripheral starts with analytics reporting on
KeyB ==
    [ cid |-> 81, tid |-> 57, flags |-> RAW_XY, pos |-> 0, group |-> 1, gmask |-> 0,
      reporting |-> ANALYTICS_KEY_EVENTS_REPORTING ]

InitKeys ==
    /\ online \in BOOLEAN
    /\ protocol = 20
    /\ devTable \in KeyFeatureTables
    /\ devKeys = << KeyA, KeyB >>
    /\ InitObjects

NextKeys ==
    \/ DoGetKeys
    \/ DoKeysGetItem
    \/ DoKeysIndex
    \/ DoSetCidReporting
    \/ DoSetDiverted
    \/ DoSetPersistentlyDiverted
    \/ DoSetRawXYReporting
    \/ DoRemap
    \/ DoGetCidReporting
    \/ DoMappedTo
    \/ DoMappingFlags
    \/ DoRemappableTo
    \/ SetOnline
    \/ Return

SpecKeys == InitKeys /\ [][NextKeys]_vars

\* the control directory from its construction on, built by get_keys or
\* directly with a count of the caller
NextArray ==
    \/ DoKeysArray
    \/ DoGetKeys
    \/ DoKeysGetItem
    \/ DoKeysIndex
    \/ DoRemappableTo
    \/ SetOnline
    \/ Return

SpecArray == InitKeys /\ [][NextArray]_vars

\* ------------------------------------------------------------ Feature Directory claims

\* the feature IDs in resolved slots
Resolved == { features[i] : i \in { j \in DOMAIN features : features[j] # None } }

\* C1: no feature ID is at once in a resolved slot of `features` and in
\* `non_features`.
C1_SlotsDisjointFromNegativeCache == Resolved \cap non_features = {}

\* C2: once the bootstrap has succeeded, slot 0 holds ROOT in every later state.
C2_RootStaysAtSlotZero == features # <<>> => At(features, 0) = ROOT

\* C3: for a feature ID that contains() has found absent (it is in the negative
\* cache), indexOf fails with ValueError instead of returning an index.
C3_IndexOfAbsentRaises ==
    (op.name = "index" /\ pre.ready /\ op.arg \in non_features)
        => result.tag = "ValueError"

\* C4: once `supported` is false it stays false, and an ensure-ready() that
\* finds it false returns False without any transport request.
C4_PermanentDisable ==
    /\ [](~pre.supported /\ op.name = "check" => result = RFalse /\ wire = <<>>)
    /\ [][~supported => ~supported']_vars

\* an ensure-ready() ran on a disabled directory while the device was online
C4_Witness == ~pre.supported /\ op.name = "check" /\ online

\* ---- control entries: what an operation under observation did

\* the entry the operation under observation was called on
OpIndex == IF op.name = "setCidReporting" THEN op.arg.index ELSE op.arg

\* the positions in the log of the requests to function fn of the v4 feature
Sent(fn) == { i \in DOMAIN wire : wire[i].addr % 256 = fn }

\* the entry as it was before and as it is after the operation
EntryBefore == At(pre.keys, OpIndex)
EntryAfter == At(keys, OpIndex)

CachedUnchanged ==
    /\ EntryAfter._mapped_to = EntryBefore._mapped_to
    /\ EntryAfter._mapping_flags = EntryBefore._mapping_flags

\* C5: in _setCidReporting, every set-reporting request that was sent is
\* followed by a get-reporting request, whatever came back for it (the echo,
\* a differing echo, or nothing).
C5_ResyncAfterEveryOutcome ==
    op.name = "setCidReporting" =>
        \A i \in Sent(48) : \E j \in Sent(32) : j > i

\* C6: a v4 control entry operation never ends with an error other than
\* FeatureNotSupported, whatever the device replies or fails to reply.
C6_OnlyFeatureNotSupported ==
    op.name \in {"setCidReporting", "mapped_to", "mapping_flags", "remappable_to"} =>
        result.tag \notin Errors \ {"FeatureNotSupported"}

\* the flags a _setCidReporting call asks on: those the caller gave as true,
\* and diverted when raw XY is among them
AskedOn ==
    { f \in DOMAIN op.arg.flags : op.arg.flags[f] }
    \cup (IF RAW_XY_DIVERTED \in DOMAIN op.arg.flags /\ op.arg.flags[RAW_XY_DIVERTED]
          THEN {DIVERTED} ELSE {})

\* C7: a _setCidReporting that asks on a flag (given by the caller or forced
\* by the coupling) whose capability the control lacks ends with
\* FeatureNotSupported, has made no request, and leaves the entry's cached
\* mapped_to and mapping_flags as they were.
C7_UnsupportedFlagFailsBeforeAnyRequest ==
    ( /\ op.name = "setCidReporting"
      /\ \E f \in AskedOn : ~HasBit(EntryBefore.flags, FLAG_TO_CAPABILITY[f]) )
    => /\ result.tag = "FeatureNotSupported"
       /\ wire = <<>>
       /\ CachedUnchanged

\* raw XY asked of a control that cannot be diverted, its cached state known
C7_Witness ==
    /\ op.name = "setCidReporting"
    /\ online
    /\ op.arg.flags = (RAW_XY_DIVERTED :> TRUE)
    /\ HasBit(EntryBefore.flags, RAW_XY)
    /\ ~HasBit(EntryBefore.flags, DIVERTABLE)
    /\ EntryBefore._mapped_to # None
    /\ result.tag = "FeatureNotSupported"

\* the control IDs remappable_to holds for the entry of the operation, read
\* from the directory as the operation left it
RemappableNow ==
    IF GroupMask(EntryAfter.gmask) = {} THEN {}
    ELSE {EntryAfter.cid}
         \cup { Targets(Ctx, EntryAfter, 1)[j] : j \in DOMAIN Targets(Ctx, EntryAfter, 1) }

\* C8: a _setCidReporting with a nonzero remap target outside remappable_to
\* ends with FeatureNotSupported, sends no set-reporting request and leaves
\* the cached mapped_to and mapping_flags as they were; with remap 0 the
\* request carries remap 0 and remappable_to is not computed (no control is
\* queried).
C8_RemapOutsideTargetsFails ==
    op.name = "setCidReporting" =>
        /\ (op.arg.remap # 0 /\ op.arg.remap \notin RemappableNow)
            => /\ result.tag = "FeatureNotSupported"
               /\ Sent(48) = {}
               /\ CachedUnchanged
        /\ op.arg.remap = 0
            => /\ \A i \in Sent(48) : SubSeq(wire[i].params, 4, 5) = << 0, 0 >>
               /\ Sent(16) = {}

\* a remap to a control outside the targets, on an entry whose state is cached
C8_Witness ==
    /\ op.name = "setCidReporting"
    /\ online
    /\ op.arg.remap # 0
    /\ RemappableNow # {}
    /\ op.arg.remap \notin RemappableNow
    /\ EntryBefore._mapped_to # None
    /\ result.tag = "FeatureNotSupported"

\* the operation ran _getCidReporting
Fetched == op.name = "getCidReporting" \/ Sent(32) # {}

\* a get-reporting reply of at least 5 bytes came back
UsableReply == \E i \in Sent(32) : wire[i].reply = "bytes" /\ Len(wire[i].data) >= 5

\* C9: after every run of _getCidReporting both mapped_to and mapping_flags
\* of the entry are known; without a reply of at least 5 bytes they are 0
\* and the entry's own control ID, and _getCidReporting itself raises nothing.
C9_FetchLeavesBothKnown ==
    (op.name \in {"getCidReporting", "setCidReporting", "mapped_to", "mapping_flags"}
     /\ Fetched)
    => /\ EntryAfter._mapped_to # None
       /\ EntryAfter._mapping_flags # None
       /\ ~UsableReply => /\ EntryAfter._mapping_flags = 0
                          /\ EntryAfter._mapped_to = EntryAfter.cid
       /\ op.name = "getCidReporting" => result = RNone

\* a truncated reply to the first fetch of an entry
C9_Witness ==
    /\ op.name = "getCidReporting"
    /\ EntryBefore._mapped_to = None
    /\ EntryBefore._mapping_flags = None
    /\ Sent(32) # {}
    /\ \E i \in Sent(32) : wire[i].reply = "bytes" /\ Len(wire[i].data) < 5
    /\ EntryAfter._mapped_to = EntryAfter.cid

\* C10: when the flags given to _setCidReporting ask raw XY on, the bit field
\* sent has the diverted value bit and its valid bit set, also when diverted
\* was not given or was given as false; no bit field sent has the raw XY
\* value bit set and the diverted value bit clear.
C10_RawXYForcesDiverted ==
    op.name = "setCidReporting" =>
        \A i \in Sent(48) :
            /\ (RAW_XY_DIVERTED \in DOMAIN op.arg.flags /\ op.arg.flags[RAW_XY_DIVERTED])
                => /\ HasBit(wire[i].params[3], DIVERTED)
                   /\ HasBit(wire[i].params[3], 2 * DIVERTED)
                   /\ HasBit(wire[i].params[3], RAW_XY_DIVERTED)
            /\ HasBit(wire[i].params[3], RAW_XY_DIVERTED)
                => HasBit(wire[i].params[3], DIVERTED)

\* raw XY asked on with diverted given as false, and the request was sent
C10_Witness ==
    /\ op.name = "setCidReporting"
    /\ op.arg.flags = (DIVERTED :> FALSE) @@ (RAW_XY_DIVERTED :> TRUE)
    /\ Sent(48) # {}

\* C11: when _setCidReporting is given diverted = false and no raw XY flag,
\* the bit field sent has the raw XY valid bit set and its value bit clear,
\* and the diverted valid bit set and its value bit clear.
C11_DivertedOffClearsRawXY ==
    ( /\ op.name = "setCidReporting"
      /\ DIVERTED \in DOMAIN op.arg.flags
      /\ ~op.arg.flags[DIVERTED]
      /\ RAW_XY_DIVERTED \notin DOMAIN op.arg.flags )
    => \A i \in Sent(48) :
        /\ HasBit(wire[i].params[3], 2 * RAW_XY_DIVERTED)
        /\ ~HasBit(wire[i].params[3], RAW_XY_DIVERTED)
        /\ HasBit(wire[i].params[3], 2 * DIVERTED)
        /\ ~HasBit(wire[i].params[3], DIVERTED)

\* set_diverted(False) sent its request
C11_Witness ==
    /\ op.name = "setCidReporting"
    /\ op.arg.flags = (DIVERTED :> FALSE)
    /\ Sent(48) # {}

\* the outcomes of an independent _getCidReporting on the entry, started now,
\* that gets the reply the operation under observation got to its own
SameReplyFetches ==
    { r \in GetCidReporting(Ctx, OpIndex) :
        \E i \in Sent(32), j \in DOMAIN r.c.wire :
            /\ r.c.wire[j].addr = wire[i].addr
            /\ r.c.wire[j].reply = wire[i].reply
            /\ r.c.wire[j].data = wire[i].data }

C13_IndexIsOfMatchingEntry ==
    (op.name = "keys.index" /\ result.tag = "int")
    => /\ At(keys, result.val) # NoKey
       /\ At(keys, result.val).cid = op.arg

\* C14: a KeysArray.__getitem__ of an in-range unresolved slot keeps the
\* length, sends the query once whenever the device is online, and when no
\* reply comes leaves the slot unresolved and cid_to_tid and group_cids as
\* they were.
C14_UnansweredQueryLeavesSlotUnresolved ==
    ( /\ op.name = "keys.get"
      /\ op.arg \in 0..(Len(pre.keys) - 1)
      /\ At(pre.keys, op.arg) = NoKey )
    => /\ Len(keys) = Len(pre.keys)
       /\ online => Cardinality(Sent(16)) = 1
       /\ (\A i \in Sent(16) : wire[i].reply = "None")
            => /\ At(keys, op.arg) = NoKey
               /\ cid_to_tid = pre.cid_to_tid
               /\ group_cids = pre.group_cids
               /\ result = RNone

\* the query of a slot went unanswered while another slot is resolved
C14_Witness ==
    /\ op.name = "keys.get"
    /\ online
    /\ op.arg \in 0..(Len(pre.keys) - 1)
    /\ At(pre.keys, op.arg) = NoKey
    /\ \E i \in Sent(16) : wire[i].reply = "None"
    /\ \E j \in DOMAIN keys : keys[j] # NoKey

\* C15: remappable_to of a v4 control is empty when its group mask names no
\* group; otherwise it starts with the control's own ID (its default task)
\* and holds that ID exactly once, also when the ID is in a bucket the mask
\* names.
C15_OwnTaskFirstAndOnce ==
    (op.name = "remappable_to" /\ result.tag = "list")
    => IF EntryAfter.gmask = 0
       THEN result.data = <<>>
       ELSE /\ result.data # <<>>
            /\ result.data[1] = EntryAfter.cid
            /\ Cardinality({ j \in DOMAIN result.data : result.data[j] = EntryAfter.cid }) = 1

\* the control is in a group its own mask names, next to another control
C15_Witness ==
    /\ op.name = "remappable_to"
    /\ result.tag = "list"
    /\ Len(result.data) > 1
    /\ \E j \in DOMAIN group_cids[EntryAfter.group] :
        group_cids[EntryAfter.group][j] = EntryAfter.cid
    /\ HasBit(EntryAfter.gmask, 2 ^ (EntryAfter.group - 1))

\* the requests of a feature_request that carry its one-byte parameter: the
\* lookups of the directory carry two bytes or none
FeatureCalls == { i \in DOMAIN wire : Len(wire[i].params) = 1 }

\* the slots in which the directory holds the feature of the operation
SlotsOf(id) == { i \in 0..(Len(features) - 1) : At(features, i) = id }

\* C16: feature_request makes no call at a feature address and returns None
\* when the device is offline, the directory is not usable, or the feature
\* is absent (the peripheral lacks it, or the directory does not hold it);
\* otherwise it makes exactly one, at (slot << 8) | (function & 0xFF) for the
\* slot holding the feature, and returns its reply.
C16_DispatchOnceAtTheSlot ==
    op.name = "feature_request" =>
        IF \/ ~online
           \/ features = <<>>
           \/ SlotsOf(op.arg.feature) = {}
           \/ \A i \in DOMAIN devTable : devTable[i] # op.arg.feature
        THEN FeatureCalls = {} /\ result = RNone
        ELSE /\ Cardinality(FeatureCalls) = 1
             /\ \A i \in FeatureCalls :
                 /\ \E s \in SlotsOf(op.arg.feature) :
                     wire[i].addr = s * 256 + (op.arg.function % 256)
                 /\ result.tag = wire[i].reply
                 /\ result.data = wire[i].data

\* C17: _check on an undecided directory while the device is offline returns
\* False, sends nothing and changes nothing; and from every undecided
\* directory, once the device is online (HID++ 2.0, with a feature set), a
\* _check runs the two bootstrap requests and can return True.
C17_OfflineCheckIsRetryable ==
    /\ (op.name = "check" /\ pre.supported /\ ~pre.ready /\ ~online)
        => /\ result = RFalse
           /\ wire = <<>>
           /\ supported
           /\ features = <<>>
           /\ non_features = pre.non_features
    /\ ( /\ op = Idle /\ supported /\ features = <<>> /\ online
         /\ protocol \in {0, 20}
         /\ \E i \in DOMAIN devTable : devTable[i] = FEATURE_SET )
        => \E r \in Check(Ctx) :
            r.ret = RTrue /\ r.c.features # <<>> /\ Len(r.c.wire) = 2

\* _check ran on an undecided directory with the device offline
C17_Witness ==
    /\ op.name = "check"
    /\ pre.supported
    /\ ~pre.ready
    /\ ~online
    /\ protocol = 20
    /\ \E i \in DOMAIN devTable : devTable[i] = FEATURE_SET

\* the root request of the bootstrap was answered with a nonzero index
RootAnswered ==
    /\ Len(wire) >= 1
    /\ wire[1].reply = "bytes"
    /\ wire[1].data[1] # 0

\* C18: every _check of an undecided directory on an online HID++ 2.0 device
\* starts with the root request for FEATURE_SET; when that is answered with a
\* nonzero index the feature-count request follows, and without a reply to
\* it _check returns False, leaves `supported` true and allocates nothing,
\* while with a reply it returns True and the slots exist.
C18_CountUnansweredIsRetryable ==
    (op.name = "check" /\ pre.supported /\ ~pre.ready /\ online /\ protocol \in {0, 20})
    => /\ Len(wire) >= 1
       /\ wire[1].addr = 0
       /\ wire[1].params = Pack16(FEATURE_SET)
       /\ RootAnswered
            => /\ Len(wire) = 2
               /\ wire[2].addr = wire[1].data[1] * 256
               /\ wire[2].reply = "None"
                    => result = RFalse /\ supported /\ features = <<>>
               /\ wire[2].reply = "bytes"
                    => result = RTrue /\ supported /\ features # <<>>

\* the feature-count request went unanswered
C18_Witness ==
    /\ op.name = "check"
    /\ pre.supported
    /\ ~pre.ready
    /\ RootAnswered
    /\ Len(wire) = 2
    /\ wire[2].reply = "None"

\* C19: _check of an undecided directory on an online device whose protocol
\* is known and below 2.0 disables the directory, drops its device reference
\* and sends nothing; with the protocol unknown it sends the root request of
\* the bootstrap.
C19_OldProtocolDisables ==
    (op.name = "check" /\ pre.supported /\ ~pre.ready /\ online)
    => /\ (protocol # 0 /\ protocol < 20)
            => /\ result = RFalse
               /\ ~supported
               /\ ~device
               /\ ~dev_features
               /\ wire = <<>>
       /\ protocol = 0
            => /\ Len(wire) >= 1
               /\ wire[1].addr = 0
               /\ wire[1].params = Pack16(FEATURE_SET)
               /\ device

\* _check ran on a HID++ 1.0 device
C19_Witness ==
    /\ op.name = "check"
    /\ pre.supported
    /\ ~pre.ready
    /\ online
    /\ protocol = 10

\* C20: a _check that completes the bootstrap leaves count + 1 slots, ROOT
\* in slot 0, FEATURE_SET in the slot the root feature named and every other
\* slot unresolved; from then on the number of slots never changes and
\* _check returns True without a request.
C20_BootstrapShape ==
    /\ []( (op.name = "check" /\ ~pre.ready /\ result = RTrue)
            => /\ Len(wire) = 2
               /\ Len(features) = wire[2].data[1] + 1
               /\ \A i \in 0..(Len(features) - 1) :
                    At(features, i) = IF i = wire[1].data[1] THEN FEATURE_SET
                                      ELSE IF i = 0 THEN ROOT
                                      ELSE None )
    /\ []( (op.name = "check" /\ pre.ready) => (result = RTrue /\ wire = <<>>) )
    /\ [][features # <<>> => Len(features') = Len(features)]_vars

\* a bootstrap on a peripheral whose feature set is not at index 1
C20_Witness ==
    /\ op.name = "check"
    /\ ~pre.ready
    /\ result = RTrue
    /\ wire[1].data[1] > 1

\* C21: FeaturesArray.__getitem__(index) raises IndexError for every index
\* outside [0, len), also when the directory is not ready and len is 0.
C21_OutOfRangeRaises ==
    (op.name = "get" /\ (op.arg < 0 \/ op.arg >= Len(features)))
    => result.tag = "IndexError"

\* C22: __contains__ on a ready directory sends at most one request, a root
\* request for the ID, and none when the ID is in non_features, is in a
\* resolved slot, or no slot is unresolved; a reply with index 0 puts the ID
\* in non_features and gives False, a nonzero index stores the ID in that
\* slot and gives True.
C22_ContainsAsksAtMostOnce ==
    (op.name = "contains" /\ pre.supported /\ pre.ready)
    => /\ Len(wire) <= 1
       /\ ( \/ op.arg \in pre.non_features
            \/ \E i \in DOMAIN pre.features : pre.features[i] = op.arg
            \/ \A i \in DOMAIN pre.features : pre.features[i] # None )
            => wire = <<>>
       /\ \A i \in DOMAIN wire :
            /\ wire[i].addr = 0
            /\ wire[i].params = Pack16(op.arg)
            /\ (wire[i].reply = "bytes" /\ wire[i].data[1] = 0)
                => /\ op.arg \in non_features
                   /\ features = pre.features
                   /\ result = RFalse
            /\ (wire[i].reply = "bytes" /\ wire[i].data[1] # 0)
                => /\ At(features, wire[i].data[1]) = op.arg
                   /\ non_features = pre.non_features
                   /\ result = RTrue

\* the root feature answered index 0 for an ID not yet in non_features
C22_Witness ==
    /\ op.name = "contains"
    /\ pre.ready
    /\ op.arg \notin pre.non_features
    /\ \E i \in DOMAIN wire : wire[i].reply = "bytes" /\ wire[i].data[1] = 0

\* s is an initial part of t
IsPrefix(s, t) == Len(s) <= Len(t) /\ SubSeq(t, 1, Len(s)) = s

\* C23: no operation removes a key from cid_to_tid or removes or reorders
\* an element of a bucket of group_cids; a resolved slot is never queried
\* again, so each bucket holds one element per resolved slot of its group.
C23_DerivedIndexesOnlyGrow ==
    /\ DOMAIN pre.cid_to_tid \subseteq DOMAIN cid_to_tid
    /\ \A cid \in DOMAIN pre.cid_to_tid : cid_to_tid[cid] = pre.cid_to_tid[cid]
    /\ \A g \in DOMAIN group_cids : IsPrefix(pre.group_cids[g], group_cids[g])
    /\ op.name # "get_keys" =>
        \A i \in Sent(16) : At(pre.keys, wire[i].params[1]) = NoKey
    /\ \A g \in DOMAIN group_cids :
        Len(group_cids[g]) =
            Cardinality({ i \in DOMAIN keys : keys[i] # NoKey /\ keys[i].group = g })

\* a query appended to a bucket that already held a control
C23_Witness ==
    /\ \E g \in DOMAIN group_cids :
        /\ pre.group_cids[g] # <<>>
        /\ Len(group_cids[g]) > Len(pre.group_cids[g])
    /\ Sent(16) # {}

\* the slots of the control directory that were unresolved before the
\* operation under observation
UnresolvedBefore == { i \in 0..(Len(pre.keys) - 1) : At(pre.keys, i) = NoKey }

\* the operation under observation evaluated remappable_to or mapped_to
Evaluated ==
    \/ op.name \in {"remappable_to", "mapped_to"}
    \/ op.name = "setCidReporting" /\ op.arg.remap # 0 /\ Sent(48) # {}

\* C24: an evaluation of remappable_to or mapped_to on an online device
\* queries every slot that was unresolved before it, each once and in slot
\* order; when every query was answered, all slots are resolved afterwards
\* and the value is the one read from the completed directory.
C24_EvaluationQueriesUnresolvedSlots ==
    (Evaluated /\ online) =>
        /\ \A i \in UnresolvedBefore :
            Cardinality({ j \in Sent(16) : wire[j].params = << i >> }) = 1
        /\ \A j \in Sent(16) : wire[j].params[1] \in UnresolvedBefore
        /\ \A j, k \in Sent(16) : j < k => wire[j].params[1] < wire[k].params[1]
        /\ (\A j \in Sent(16) : wire[j].reply = "bytes")
            => /\ \A i \in DOMAIN keys : keys[i] # NoKey
               /\ (op.name = "remappable_to" /\ result.tag = "list" /\ result.data # <<>>)
                    => { result.data[j] : j \in DOMAIN result.data } = RemappableNow
               /\ (op.name = "mapped_to" /\ result.tag = "int")
                    => result.val \in DOMAIN cid_to_tid

\* remappable_to found a slot unresolved, and its value names the control
\* of that slot
C24_Witness ==
    /\ op.name = "remappable_to"
    /\ online
    /\ UnresolvedBefore # {}
    /\ \A i \in DOMAIN keys : keys[i] # NoKey
    /\ \E i \in UnresolvedBefore : \E j \in DOMAIN result.data :
        result.data[j] = At(keys, i).cid

\* the version a construction selects for a peripheral whose feature table
\* the directory sees in full
DeclaredVersion ==
    IF \E i \in DOMAIN devTable : devTable[i] = REPROG_CONTROLS THEN 1
    ELSE IF \E i \in DOMAIN devTable : devTable[i] = REPROG_CONTROLS_V4 THEN 4
    ELSE 0

\* C25: KeysArray(device, count) selects version 1 when the feature
\* directory has REPROG_CONTROLS (also next to REPROG_CONTROLS_V4), version 4
\* when it has only REPROG_CONTROLS_V4, and no version otherwise; it always
\* allocates `count` unresolved slots; no later operation changes the
\* length; without a version no slot is queried or resolved.
C25_ConstructionSelectsVersion ==
    /\ (op.name \in {"KeysArray", "get_keys"} /\ dev_keys) =>
        /\ keys = [i \in 1..Len(keys) |-> NoKey]
        /\ cid_to_tid = <<>>
        /\ keyversion = (IF REPROG_CONTROLS \in Resolved THEN 1
                         ELSE IF REPROG_CONTROLS_V4 \in Resolved THEN 4 ELSE 0)
        /\ (online /\ pre.supported /\ \A i \in DOMAIN wire : wire[i].reply = "bytes")
            => keyversion = DeclaredVersion
    /\ op.name = "KeysArray" => dev_keys /\ Len(keys) = op.arg
    /\ (op.name = "get_keys" /\ dev_keys) => Len(keys) = Len(devKeys)
    /\ op.name \notin {"idle", "get_keys", "KeysArray"} => Len(keys) = Len(pre.keys)
    /\ (dev_keys /\ keyversion = 0) =>
        /\ \A i \in DOMAIN keys : keys[i] = NoKey
        /\ op.name \in {"keys.get", "keys.index", "remappable_to"} => wire = <<>>

\* a slot of a directory without a version was asked for on an online
\* device, and stayed unresolved
C25_Witness ==
    /\ op.name = "keys.get"
    /\ dev_keys
    /\ keyversion = 0
    /\ online
    /\ Len(keys) = MaxCount
    /\ op.arg \in 0..(Len(keys) - 1)
    /\ result.tag = "None"

\* the flags dictionary of the operation under observation after the
\* coupling, as presence and value of each flag: raw XY given as true puts
\* diverted in as true; diverted then present and false puts raw XY in as
\* false
PresentAfterCoupling(f) ==
    LET given == op.arg.flags
        rawOn == RAW_XY_DIVERTED \in DOMAIN given /\ given[RAW_XY_DIVERTED]
        divOff == ~rawOn /\ DIVERTED \in DOMAIN given /\ ~given[DIVERTED]
    IN  \/ f \in DOMAIN given
        \/ f = DIVERTED /\ rawOn
        \/ f = RAW_XY_DIVERTED /\ divOff

TrueAfterCoupling(f) ==
    LET given == op.arg.flags
        rawOn == RAW_XY_DIVERTED \in DOMAIN given /\ given[RAW_XY_DIVERTED]
        divOff == ~rawOn /\ DIVERTED \in DOMAIN given /\ ~given[DIVERTED]
    IN  IF f = DIVERTED /\ rawOn THEN TRUE
        ELSE IF f = RAW_XY_DIVERTED /\ divOff THEN FALSE
        ELSE f \in DOMAIN given /\ given[f]

\* bit b of the bit field the claim describes: the bit of a flag that is
\* true, or the bit one to the left of a flag that is present
BitExpected(b) ==
    IF \E f \in MAPPING_FLAG :
          \/ f = b /\ TrueAfterCoupling(f)
          \/ 2 * f = b /\ PresentAfterCoupling(f)
    THEN b ELSE 0

\* C26: the bit field byte of every set-reporting request is the low 8 bits
\* of the OR, over the flags present after the coupling, of the flag's bit
\* when the flag is true and of the bit one to its left in every case; a
\* flag that is absent contributes no bit, and no bit above bit 7 is sent.
C26_BitfieldIsLowByteOfFlagBits ==
    op.name = "setCidReporting" =>
        \A i \in Sent(48) :
            /\ Len(wire[i].params) = 5
            /\ wire[i].params[3] < 256
            /\ wire[i].params[3] =
                BitExpected(1) + BitExpected(2) + BitExpected(4) + BitExpected(8)
                + BitExpected(16) + BitExpected(32) + BitExpected(64) + BitExpected(128)

\* raw XY asked on next to analytics asked off: diverted comes in by the
\* coupling, and both bits of analytics lie above bit 7
C26_Witness ==
    /\ op.name = "setCidReporting"
    /\ op.arg.flags = (RAW_XY_DIVERTED :> TRUE) @@ (ANALYTICS_KEY_EVENTS_REPORTING :> FALSE)
    /\ \E i \in Sent(48) :
        wire[i].params[3] = DIVERTED + 2 * DIVERTED + RAW_XY_DIVERTED + 2 * RAW_XY_DIVERTED

\* the last get-reporting request of the operation under observation
LastFetch == CHOOSE i \in Sent(32) : \A j \in Sent(32) : j <= i

\* C27: when the reply to getCidReporting has at least 5 bytes, the entry's
\* _mapping_flags is the third byte plus 256 times the sixth byte (0 when
\* the reply has exactly 5 bytes) and its _mapped_to is the 16-bit field at
\* bytes 4-5, or the entry's own control ID when that field is 0; this also
\* when the first two bytes echo another control ID.
C27_FetchDecodesReply ==
    ( /\ op.name \in {"getCidReporting", "setCidReporting", "mapped_to", "mapping_flags"}
      /\ Sent(32) # {}
      /\ wire[LastFetch].reply = "bytes"
      /\ Len(wire[LastFetch].data) >= 5 )
    => LET data == wire[LastFetch].data
           field == data[4] * 256 + data[5]
       IN  /\ wire[LastFetch].params = Pack16(EntryAfter.cid)
           /\ EntryAfter._mapping_flags =
                data[3] + (IF Len(data) = 5 THEN 0 ELSE 256 * data[6])
           /\ EntryAfter._mapped_to = (IF field = 0 THEN EntryAfter.cid ELSE field)

\* a 6-byte reply with a nonzero sixth byte was stored
C27_Witness ==
    /\ op.name = "getCidReporting"
    /\ Sent(32) # {}
    /\ Len(wire[LastFetch].data) = 6
    /\ wire[LastFetch].data[6] # 0
    /\ EntryAfter._mapping_flags >= 256

\* the operation under observation was a get of a slot that was in range
\* of a ready directory
GetInRange ==
    /\ op.name = "get"
    /\ pre.ready
    /\ op.arg >= 0
    /\ op.arg < Len(pre.features)

\* C28: __getitem__(index) of an in-range unresolved slot makes at most one
\* request, exactly one when the device is online, and stores the decoded
\* ID when a reply arrives; a get of a resolved slot makes no request, and
\* an iteration over a directory whose slots are all resolved makes none.
C28_SlotFetchedAtMostOnce ==
    /\ (GetInRange /\ At(pre.features, op.arg) = None) =>
        /\ Len(wire) <= 1
        /\ online => Len(wire) = 1
        /\ \A i \in DOMAIN wire :
            /\ wire[i].addr % 256 = 16
            /\ At(pre.features, wire[i].addr \div 256) = FEATURE_SET
            /\ wire[i].params = << op.arg >>
            /\ IF wire[i].reply = "bytes"
               THEN /\ At(features, op.arg) = wire[i].data[1] * 256 + wire[i].data[2]
                    /\ result = RInt(At(features, op.arg))
               ELSE /\ At(features, op.arg) = None
                    /\ result = RNone
        /\ \A j \in DOMAIN features : j # op.arg + 1 => features[j] = pre.features[j]
    /\ (GetInRange /\ At(pre.features, op.arg) # None) =>
        /\ wire = <<>>
        /\ features = pre.features
        /\ result = RInt(At(pre.features, op.arg))
    /\ ( /\ op.name = "iterate"
         /\ pre.ready
         /\ \A j \in DOMAIN pre.features : pre.features[j] # None ) =>
        /\ wire = <<>>
        /\ features = pre.features

\* an unresolved slot above the bootstrapped ones was fetched and stored
C28_Witness ==
    /\ GetInRange
    /\ At(pre.features, op.arg) = None
    /\ online
    /\ Len(wire) = 1
    /\ wire[1].reply = "bytes"
    /\ At(features, op.arg) = At(devTable, op.arg)
    /\ At(features, op.arg) # None

====
